---------------------------- MODULE Spec2Model ----------------------------
(***************************************************************************)
(* SonicSlice (sumitsig/mp3-cutter): the selection / playback state        *)
(* machine of src/App.tsx and src/components/WaveformEditor.tsx, the clip  *)
(* registry of src/App.tsx with the smart rename of ClipManager.tsx, and   *)
(* the audio utilities of src/unnamed/part_000.                            *)
(*                                                                         *)
(* Time.  Every time value (seconds in the code) is an integer number of   *)
(* grid steps of 0.05 s, so that 0.1 s = 2 steps and 15 s = 300 steps.     *)
(* Arithmetic on the grid is exact; the rounding of IEEE doubles is not    *)
(* modelled.                                                               *)
(*                                                                         *)
(* React.  A handler reads the state of the latest render.  A closure that *)
(* outlives its render (the animation-frame callback `update`, a source's  *)
(* onended, reader.onload) keeps the values it captured: the model stores  *)
(* the captured values with the pending callback.                          *)
(***************************************************************************)
EXTENDS Integers, Sequences, FiniteSets, TLC

VARIABLES
    mainAudio,          \* App.tsx:11   NoAudio, or the loaded buffer's duration
    isPlaying,          \* App.tsx:12
    currentTime,        \* App.tsx:13   the cursor
    selection,          \* App.tsx:14   [start, end]
    isProcessing,       \* App.tsx:16
    pendingLoads,       \* FileReader loads started and not yet delivered
    now,                \* audioContext.currentTime
    startTimeRef,       \* App.tsx:20
    sourceNodeRef,      \* App.tsx:19   NoNode, or the node the ref holds
    detached,           \* nodes no ref holds that still sound or owe 'ended'
    animationFrameRef,  \* App.tsx:22   0, or the index in loops of the request it names
    loops,              \* pending requestAnimationFrame(update) callbacks
    isDragging,         \* WaveformEditor.tsx:29
    alerts,             \* App.tsx:58   alert() calls made so far
    clips,              \* App.tsx:15
    dateNow,            \* Date.now(), in milliseconds
    download,           \* the file last handed to the browser (a.click())
    isGeneratingName,   \* ClipManager.tsx:14
    pendingRename,      \* the smart rename in flight, with the clips its onRename captured
    args,               \* the argument of the audio utility under study
    result              \* what the utility returned

vars == <<mainAudio, isPlaying, currentTime, selection, isProcessing,
          pendingLoads, now, startTimeRef, sourceNodeRef, detached,
          animationFrameRef, loops, isDragging, alerts, clips, dateNow,
          download, isGeneratingName, pendingRename, args, result>>

playerVars == <<mainAudio, isPlaying, currentTime, selection, isProcessing,
                pendingLoads, now, startTimeRef, sourceNodeRef, detached,
                animationFrameRef, loops, isDragging, alerts>>

clipVars == <<clips, dateNow, download, isGeneratingName, pendingRename>>

utilVars == <<args, result>>

---------------------------------------------------------------------------
(* Bounds of the exploration *)

MaxClock == 3       \* audioContext.currentTime stops advancing here
MaxPending == 1     \* file loads in flight
MaxDetached == 1    \* nodes a new playback may leave behind, sounding or owing 'ended'
MaxLoops == 2       \* animation-frame loops scheduled at once
MaxClips == 3       \* clips in the registry
MaxDate == 2        \* Date.now() stops advancing here
MaxAlerts == 1      \* decode failures reported

(* Program constants, in grid steps of 0.05 s *)

minDuration == 2                \* WaveformEditor.tsx:169   0.1 s
DefaultSelectionEnd == 300      \* App.tsx:53               15 s
InitialSelectionEnd == 200      \* App.tsx:14               10 s

(* Inputs *)

NoAudio == 0
Durations == {1, 3}             \* decoded durations: 0.05 s, 0.15 s
DragDurations == {1, 2, 4, 10, 301}   \* 0.05 s, 0.1 s, 0.2 s, 0.5 s, 15.05 s
ClockSteps == {1, 2}
containerWidth == 40            \* WaveformEditor.tsx:30, pixels
RawXs == {-5, 0, 40, 45}        \* e.clientX - rect.left: the edges and beyond
AllXs == -2..(containerWidth + 2)
Names == {"a", "b"}

NoNode == [offset |-> -1, duration |-> 0, endAt |-> 0,
           stopped |-> TRUE, ended |-> TRUE]

---------------------------------------------------------------------------
(* Helpers *)

Min(a, b) == IF a < b THEN a ELSE b

Max(a, b) == IF a > b THEN a ELSE b

Abs(a) == IF a < 0 THEN -a ELSE a

RECURSIVE DropIdx(_, _, _)
DropIdx(s, I, j) ==
    IF j > Len(s) THEN <<>>
    ELSE (IF j \in I THEN <<>> ELSE <<s[j]>>) \o DropIdx(s, I, j + 1)

RemoveAll(s, I) == DropIdx(s, I, 1)

---------------------------------------------------------------------------
(* Web Audio: an AudioBufferSourceNode sounds from start() until it is     *)
(* stopped, disconnected or has played its length; 'ended' is delivered    *)
(* once, some time after it stopped sounding.                              *)

Emitting(n) == ~n.stopped /\ ~n.ended /\ now < n.endAt

EndedDue(n) == ~n.ended /\ (n.stopped \/ now >= n.endAt)

---------------------------------------------------------------------------
(* stopAudio, App.tsx:116-128, as the values it leaves.  pauseTimeRef is   *)
(* written there and read nowhere in the program; it is not modelled.      *)

\* A node after stop() and disconnect(): silent for good, and nothing reads
\* its offset, duration or end time again.
StoppedNode == [offset |-> 0, duration |-> 0, endAt |-> 0,
                stopped |-> TRUE, ended |-> FALSE]

\* A node whose 'ended' event was delivered.
EndedNode == [offset |-> 0, duration |-> 0, endAt |-> 0,
              stopped |-> FALSE, ended |-> TRUE]

\* lines 117-121: stop(), disconnect(), sourceNodeRef.current = null.  The
\* stopped node still owes its 'ended' event unless it was delivered.
DetachedAfterStop(ref, det) ==
    IF ref # NoNode /\ ~ref.ended
    THEN Append(det, StoppedNode)
    ELSE det

\* lines 122-124: cancelAnimationFrame(animationFrameRef.current) removes
\* the one request the ref names; 0 and an id no longer pending cancel nothing.
LoopsAfterCancel(lps, afr) ==
    IF afr # 0 THEN RemoveAll(lps, {afr}) ELSE lps

stopAudio ==
    /\ sourceNodeRef' = NoNode
    /\ detached' = DetachedAfterStop(sourceNodeRef, detached)
    /\ loops' = LoopsAfterCancel(loops, animationFrameRef)
    /\ animationFrameRef' = 0
    /\ isPlaying' = FALSE

---------------------------------------------------------------------------
(* File load, App.tsx:34-66 *)

handleFileUpload ==
    /\ mainAudio = NoAudio              \* the input is rendered only then (239)
    /\ pendingLoads < MaxPending
    /\ isProcessing' = TRUE
    /\ pendingLoads' = pendingLoads + 1
    /\ UNCHANGED <<mainAudio, isPlaying, currentTime, selection, now,
                   startTimeRef, sourceNodeRef, detached, animationFrameRef,
                   loops, isDragging, alerts, clipVars, utilVars>>

\* reader.onload, decoding succeeded with a buffer of duration d
readerOnload(d) ==
    /\ pendingLoads > 0
    /\ pendingLoads' = pendingLoads - 1
    /\ mainAudio' = d
    /\ selection' = [start |-> 0, end |-> Min(d, DefaultSelectionEnd)]
    /\ currentTime' = 0
    /\ stopAudio
    /\ isProcessing' = FALSE
    /\ UNCHANGED <<now, startTimeRef, isDragging, alerts, clipVars, utilVars>>

\* readerOnloadError with the reset of lines 53-54 done before the failure shows
readerOnloadError_Reset ==
    /\ pendingLoads > 0
    /\ pendingLoads' = pendingLoads - 1
    /\ alerts < MaxAlerts
    /\ alerts' = alerts + 1
    /\ selection' = [start |-> 0, end |-> InitialSelectionEnd]
    /\ currentTime' = 0
    /\ isProcessing' = FALSE
    /\ UNCHANGED <<mainAudio, isPlaying, now, startTimeRef, sourceNodeRef,
                   detached, animationFrameRef, loops, isDragging, clipVars,
                   utilVars>>

\* reader.onload, decodeAudioData rejected
readerOnloadError ==
    /\ pendingLoads > 0
    /\ pendingLoads' = pendingLoads - 1
    /\ alerts < MaxAlerts
    /\ alerts' = alerts + 1             \* line 58
    /\ isProcessing' = FALSE            \* line 61
    /\ UNCHANGED <<mainAudio, isPlaying, currentTime, selection, now,
                   startTimeRef, sourceNodeRef, detached, animationFrameRef,
                   loops, isDragging, clipVars, utilVars>>

\* the Change File button, App.tsx:268-276; the editor unmounts
changeFile ==
    /\ mainAudio # NoAudio
    /\ mainAudio' = NoAudio
    /\ stopAudio
    /\ isDragging' = "none"
    /\ UNCHANGED <<currentTime, selection, isProcessing, pendingLoads, now,
                   startTimeRef, alerts, clipVars, utilVars>>

---------------------------------------------------------------------------
(* Playback, App.tsx:69-141 *)

\* lines 82-85
startPosOf(offset, sel) ==
    IF offset < sel.start \/ offset >= sel.end THEN sel.start ELSE offset

\* line 87
playDuration(startPos, sel) == sel.end - startPos

\* source.start(0, startPos, duration) on a buffer of duration d: the node
\* sounds for the requested duration or to the end of the buffer.
NewNode(startPos, dur, d) ==
    [offset |-> startPos, duration |-> dur,
     endAt |-> now + Max(0, Min(dur, d - startPos)),
     stopped |-> FALSE, ended |-> FALSE]

\* The node sourceNodeRef held when line 92 overwrites it keeps sounding.
DetachedAfterOverwrite(ref, det) ==
    IF ref # NoNode /\ ~ref.ended THEN Append(det, ref) ELSE det

playAudio(offset) ==
    LET startPos == startPosOf(offset, selection)
        dur == playDuration(startPos, selection)
        node == NewNode(startPos, dur, mainAudio)
        held == DetachedAfterOverwrite(sourceNodeRef, detached)
    IN  /\ mainAudio # NoAudio
        /\ IF startPos < 0 \/ dur < 0
           THEN \* source.start throws RangeError: the handler ends at line 89
                UNCHANGED vars
           ELSE /\ startTimeRef' = now - startPos
                /\ IF startPos >= selection.end
                   THEN \* the first update() (line 113) already sees the end
                        /\ currentTime' = selection.start
                        /\ sourceNodeRef' = NoNode
                        /\ detached' = Append(held, StoppedNode)
                        /\ loops' = LoopsAfterCancel(loops, animationFrameRef)
                        /\ animationFrameRef' = 0
                        /\ isPlaying' = FALSE
                   ELSE /\ currentTime' = startPos
                        /\ sourceNodeRef' = node
                        /\ detached' = held
                        /\ loops' = Append(loops, [sel |-> selection])
                        /\ animationFrameRef' = Len(loops) + 1
                        /\ isPlaying' = TRUE
                /\ UNCHANGED <<mainAudio, selection, isProcessing, pendingLoads,
                               now, isDragging, alerts, clipVars, utilVars>>

\* lines 130-141
togglePlayPause ==
    /\ mainAudio # NoAudio
    /\ IF isPlaying
       THEN /\ stopAudio
            /\ UNCHANGED <<mainAudio, currentTime, selection, isProcessing,
                           pendingLoads, now, startTimeRef, isDragging,
                           alerts, clipVars, utilVars>>
       ELSE /\ Len(loops) < MaxLoops
            /\ Len(DetachedAfterOverwrite(sourceNodeRef, detached)) <= MaxDetached
            /\ playAudio(IF currentTime >= selection.end
                            \/ currentTime < selection.start
                         THEN selection.start ELSE currentTime)

\* update, lines 100-112, run by the animation frame of loop k with the
\* selection that loop captured
update(k) ==
    LET trackTime == now - startTimeRef
        sel == loops[k].sel
    IN  /\ k \in 1..Len(loops)
        /\ IF trackTime >= sel.end
           THEN /\ currentTime' = sel.start
                /\ sourceNodeRef' = NoNode
                /\ detached' = DetachedAfterStop(sourceNodeRef, detached)
                /\ loops' = RemoveAll(loops, {k} \cup
                                (IF animationFrameRef # 0
                                 THEN {animationFrameRef} ELSE {}))
                /\ animationFrameRef' = 0
                /\ isPlaying' = FALSE
           ELSE /\ currentTime' = trackTime
                /\ animationFrameRef' = k
                /\ UNCHANGED <<sourceNodeRef, detached, loops, isPlaying>>
        /\ UNCHANGED <<mainAudio, selection, isProcessing, pendingLoads, now,
                       startTimeRef, isDragging, alerts, clipVars, utilVars>>

\* source.onended, lines 95-97, of the node the ref holds
onendedCurrent ==
    /\ sourceNodeRef # NoNode
    /\ EndedDue(sourceNodeRef)
    /\ sourceNodeRef' = EndedNode
    /\ isPlaying' = FALSE
    /\ UNCHANGED <<mainAudio, currentTime, selection, isProcessing,
                   pendingLoads, now, startTimeRef, detached,
                   animationFrameRef, loops, isDragging, alerts, clipVars, utilVars>>

\* source.onended of a node no ref holds any more
onendedDetached(i) ==
    /\ i \in 1..Len(detached)
    /\ EndedDue(detached[i])
    /\ detached' = RemoveAll(detached, {i})
    /\ isPlaying' = FALSE
    /\ UNCHANGED <<mainAudio, currentTime, selection, isProcessing,
                   pendingLoads, now, startTimeRef, sourceNodeRef,
                   animationFrameRef, loops, isDragging, alerts, clipVars, utilVars>>

\* lines 143-147
handleSeek(time) ==
    /\ stopAudio
    /\ currentTime' = time
    /\ UNCHANGED <<mainAudio, selection, isProcessing, pendingLoads, now,
                   startTimeRef, isDragging, alerts, clipVars, utilVars>>

\* Somebody can still read the audio clock: a scheduled update, or a node
\* that has not played out.
ClockObserved ==
    \/ loops # <<>>
    \/ sourceNodeRef # NoNode /\ ~sourceNodeRef.ended
    \/ \E i \in 1..Len(detached) : ~detached[i].stopped

\* the audio clock; its advance is explored while somebody can read it
advanceClock(d) ==
    /\ ClockObserved
    /\ now + d <= MaxClock
    /\ now' = now + d
    /\ UNCHANGED <<mainAudio, isPlaying, currentTime, selection, isProcessing,
                   pendingLoads, startTimeRef, sourceNodeRef, detached,
                   animationFrameRef, loops, isDragging, alerts, clipVars, utilVars>>

---------------------------------------------------------------------------
(* Pointer handling, WaveformEditor.tsx:132-190 *)

\* line 135
ClampX(x) == Max(0, Min(x, containerWidth))

\* the pointer positions whose time falls on the grid
OnGrid(x) == (ClampX(x) * mainAudio) % containerWidth = 0

\* lines 132-137
getPointerTime(x) == (ClampX(x) * mainAudio) \div containerWidth

\* lines 149-151: |time - s| < max(duration * 0.05, (10 / containerWidth) * duration)
WithinTolerance(time, s) ==
    \/ 20 * Abs(time - s) < mainAudio
    \/ containerWidth * Abs(time - s) < 10 * mainAudio

\* handlePointerDown that tests the end handle first
handlePointerDown_EndFirst(x) ==
    LET time == getPointerTime(x)
    IN  /\ mainAudio # NoAudio
        /\ OnGrid(x)
        /\ IF WithinTolerance(time, selection.end)
           THEN /\ isDragging' = "end"
                /\ UNCHANGED <<mainAudio, isPlaying, currentTime, selection,
                               isProcessing, pendingLoads, now, startTimeRef,
                               sourceNodeRef, detached, animationFrameRef,
                               loops, alerts, clipVars, utilVars>>
           ELSE IF WithinTolerance(time, selection.start)
           THEN /\ isDragging' = "start"
                /\ UNCHANGED <<mainAudio, isPlaying, currentTime, selection,
                               isProcessing, pendingLoads, now, startTimeRef,
                               sourceNodeRef, detached, animationFrameRef,
                               loops, alerts, clipVars, utilVars>>
           ELSE handleSeek(time)

\* lines 139-161
handlePointerDown(x) ==
    LET time == getPointerTime(x)
    IN  /\ mainAudio # NoAudio
        /\ OnGrid(x)
        /\ IF WithinTolerance(time, selection.start)
           THEN /\ isDragging' = "start"
                /\ UNCHANGED <<mainAudio, isPlaying, currentTime, selection,
                               isProcessing, pendingLoads, now, startTimeRef,
                               sourceNodeRef, detached, animationFrameRef,
                               loops, alerts, clipVars, utilVars>>
           ELSE IF WithinTolerance(time, selection.end)
           THEN /\ isDragging' = "end"
                /\ UNCHANGED <<mainAudio, isPlaying, currentTime, selection,
                               isProcessing, pendingLoads, now, startTimeRef,
                               sourceNodeRef, detached, animationFrameRef,
                               loops, alerts, clipVars, utilVars>>
           ELSE handleSeek(time)

\* NewStart with the minimum gap forgotten: the start handle may reach the end
NewStart_NoGap(time, sel) ==
    LET newStart == Max(0, time)
    IN  IF newStart >= sel.end THEN sel.end ELSE newStart

\* lines 171-176
NewStart(time, sel) ==
    LET newStart == Max(0, time)
    IN  IF newStart >= sel.end - minDuration
        THEN sel.end - minDuration ELSE newStart

\* lines 177-182
NewEnd(time, sel, d) ==
    LET newEnd == Min(d, time)
    IN  IF newEnd <= sel.start + minDuration
        THEN sel.start + minDuration ELSE newEnd

\* handlePointerMove that also seeks to the dragged boundary (onSeek beside
\* onSelectionChange)
handlePointerMove_Seek(x) ==
    /\ isDragging # "none"
    /\ mainAudio # NoAudio
    /\ OnGrid(x)
    /\ selection' =
          IF isDragging = "start"
          THEN [selection EXCEPT !.start = NewStart(getPointerTime(x), selection)]
          ELSE [selection EXCEPT !.end = NewEnd(getPointerTime(x), selection, mainAudio)]
    /\ stopAudio
    /\ currentTime' = IF isDragging = "start" THEN selection'.start ELSE selection'.end
    /\ UNCHANGED <<mainAudio, isProcessing, pendingLoads, now, startTimeRef,
                   isDragging, alerts, clipVars, utilVars>>

\* lines 163-185; onSelectionChange is setSelection (App.tsx:284)
handlePointerMove(x) ==
    /\ isDragging # "none"
    /\ mainAudio # NoAudio
    /\ OnGrid(x)
    /\ selection' =
          IF isDragging = "start"
          THEN [selection EXCEPT !.start = NewStart(getPointerTime(x), selection)]
          ELSE [selection EXCEPT !.end = NewEnd(getPointerTime(x), selection, mainAudio)]
    /\ UNCHANGED <<mainAudio, isPlaying, currentTime, isProcessing,
                   pendingLoads, now, startTimeRef, sourceNodeRef, detached,
                   animationFrameRef, loops, isDragging, alerts, clipVars, utilVars>>

\* lines 187-190
handlePointerUp ==
    /\ mainAudio # NoAudio
    /\ isDragging' = "none"
    /\ UNCHANGED <<mainAudio, isPlaying, currentTime, selection, isProcessing,
                   pendingLoads, now, startTimeRef, sourceNodeRef, detached,
                   animationFrameRef, loops, alerts, clipVars, utilVars>>

---------------------------------------------------------------------------
(* The parts of the state a specification leaves at rest *)

\* the state after construction, App.tsx:10-22, WaveformEditor.tsx:29
PlayerIdle ==
    /\ mainAudio = NoAudio
    /\ isPlaying = FALSE
    /\ currentTime = 0
    /\ selection = [start |-> 0, end |-> InitialSelectionEnd]
    /\ isProcessing = FALSE
    /\ pendingLoads = 0
    /\ now = 0
    /\ startTimeRef = 0
    /\ sourceNodeRef = NoNode
    /\ detached = <<>>
    /\ animationFrameRef = 0
    /\ loops = <<>>
    /\ isDragging = "none"
    /\ alerts = 0

NoDownload == [kind |-> "none", buffers |-> <<>>]

NoName == -1        \* isGeneratingName = null

NoRename == [stage |-> "idle", id |-> NoName, clips |-> <<>>]

\* no clip cut yet, no smart rename in flight
ClipsIdle ==
    /\ clips = <<>>
    /\ dateNow = 0
    /\ download = NoDownload
    /\ isGeneratingName = NoName
    /\ pendingRename = NoRename

NoArgs == [op |-> "none"]

NoResult == [op |-> "none"]

UtilIdle == args = NoArgs /\ result = NoResult

---------------------------------------------------------------------------
(* The editor and player *)

Init == PlayerIdle /\ ClipsIdle /\ UtilIdle

Next ==
    \/ handleFileUpload
    \/ \E d \in Durations : readerOnload(d)
    \/ readerOnloadError
    \/ changeFile
    \/ togglePlayPause
    \/ \E k \in 1..Len(loops) : update(k)
    \/ onendedCurrent
    \/ \E i \in 1..Len(detached) : onendedDetached(i)
    \/ \E d \in ClockSteps : advanceClock(d)
    \/ \E x \in RawXs : handlePointerDown(x)
    \/ \E x \in RawXs : handlePointerMove(x)
    \/ handlePointerUp

Spec == Init /\ [][Next]_vars

---------------------------------------------------------------------------
(* The selection editor alone: a loaded file and the pointer handlers of   *)
(* WaveformEditor.tsx, at every pointer position of the track.             *)

\* the state reader.onload leaves (App.tsx:46-56) for a buffer of duration d
Loaded(d) ==
    /\ mainAudio = d
    /\ isPlaying = FALSE
    /\ currentTime = 0
    /\ selection = [start |-> 0, end |-> Min(d, DefaultSelectionEnd)]
    /\ isProcessing = FALSE
    /\ pendingLoads = 0
    /\ now = 0
    /\ startTimeRef = 0
    /\ sourceNodeRef = NoNode
    /\ detached = <<>>
    /\ animationFrameRef = 0
    /\ loops = <<>>
    /\ isDragging = "none"
    /\ alerts = 0

InitDrag ==
    /\ \E d \in DragDurations : Loaded(d)
    /\ ClipsIdle
    /\ UtilIdle

NextDrag ==
    \/ \E x \in AllXs : handlePointerDown(x)
    \/ \E x \in AllXs : handlePointerMove(x)
    \/ handlePointerUp

SpecDrag == InitDrag /\ [][NextDrag]_vars

---------------------------------------------------------------------------
(* The clip registry, App.tsx:149-210 *)

\* lines 153-161 and 175-180: the slice of the selection, its WAV payload,
\* and Date.now().toString() as the identifier
NewClip ==
    [id |-> dateNow,
     name |-> "cut",
     buffer |-> <<selection.start, selection.end>>,
     blob |-> <<"wav", selection.start, selection.end>>]

\* lines 149-183; a.click() at line 170 hands the WAV to the browser
handleCut ==
    /\ mainAudio # NoAudio
    /\ Len(clips) < MaxClips
    /\ download' = [kind |-> "cut", buffers |-> <<NewClip.buffer>>]
    /\ clips' = Append(clips, NewClip)
    /\ UNCHANGED <<playerVars, dateNow, isGeneratingName, pendingRename, utilVars>>

\* lines 185-201: the buffers of all clips in registry order, joined and
\* downloaded; setClips is not called
handleJoin ==
    /\ Len(clips) >= 2
    /\ download' = [kind |-> "join",
                    buffers |-> [i \in 1..Len(clips) |-> clips[i].buffer]]
    /\ UNCHANGED <<playerVars, clips, dateNow, isGeneratingName, pendingRename,
                   utilVars>>

\* the identifiers the clip list shows buttons for
ShownIds == {clips[i].id : i \in 1..Len(clips)}

\* lines 204-206; the list item's button calls the deleteClip of the latest render
deleteClip(id) ==
    /\ id \in ShownIds
    /\ clips' = SelectSeq(clips, LAMBDA c : c.id # id)
    /\ UNCHANGED <<playerVars, dateNow, download, isGeneratingName,
                   pendingRename, utilVars>>

\* line 209: cs.map(c => c.id === id ? { ...c, name } : c)
RenameIn(cs, id, name) ==
    [i \in 1..Len(cs) |->
        IF cs[i].id = id THEN [cs[i] EXCEPT !.name = name] ELSE cs[i]]

\* lines 208-210, called from the name field (ClipManager.tsx:73) of the
\* latest render
renameClip(id, name) ==
    /\ id \in ShownIds
    /\ clips' = RenameIn(clips, id, name)
    /\ UNCHANGED <<playerVars, dateNow, download, isGeneratingName,
                   pendingRename, utilVars>>

\* ClipManager.tsx:16-19: the wand button, disabled while a name is being
\* generated (line 78); the timer callback keeps the onRename of this render,
\* that is renameClip closed over the clips of this render
handleSmartRename(id) ==
    /\ id \in ShownIds
    /\ isGeneratingName = NoName
    /\ isGeneratingName' = id
    /\ pendingRename' = [stage |-> "timer", id |-> id, clips |-> clips]
    /\ UNCHANGED <<playerVars, clips, dateNow, download, utilVars>>

\* ClipManager.tsx:19-25: the timer fires and prompt() returns; with no
\* description the rename is dropped, else generateCreativeName is awaited
smartRenamePrompt(described) ==
    /\ pendingRename.stage = "timer"
    /\ IF described
       THEN /\ pendingRename' = [pendingRename EXCEPT !.stage = "naming"]
            /\ UNCHANGED isGeneratingName
       ELSE /\ pendingRename' = NoRename
            /\ isGeneratingName' = NoName
    /\ UNCHANGED <<playerVars, clips, dateNow, download, utilVars>>

\* what can become of the naming request: no API key, a response with its
\* text, a rejected request
Outcomes == {"nokey", "text", "error"}

\* response.text, taken as already trimmed and free of inner white space;
\* the empty text stands for a missing, empty or blank one
Texts == Names \cup {""}

\* src/unnamed/part_000:137, 146, 149: `audio_clip_${Date.now()}`
FallbackName == "audio_clip_" \o ToString(dateNow)

\* generateCreativeName whose empty response is passed on as the name
generateCreativeName_NoFallback(outcome, text) ==
    IF outcome = "text" THEN text ELSE FallbackName

\* src/unnamed/part_000:135-150
generateCreativeName(outcome, text) ==
    IF outcome = "nokey" THEN FallbackName
    ELSE IF outcome = "error" THEN FallbackName
    ELSE IF text # "" THEN text ELSE FallbackName

\* ClipManager.tsx:22-25: generateCreativeName resolved with name;
\* onRename(id, newName) is App.tsx:209 over the captured clips
smartRenameDone(name) ==
    /\ pendingRename.stage = "naming"
    /\ clips' = RenameIn(pendingRename.clips, pendingRename.id, name)
    /\ pendingRename' = NoRename
    /\ isGeneratingName' = NoName
    /\ UNCHANGED <<playerVars, dateNow, download, utilVars>>

\* the wall clock moves on by a millisecond
advanceDate ==
    /\ dateNow < MaxDate
    /\ dateNow' = dateNow + 1
    /\ UNCHANGED <<playerVars, clips, download, isGeneratingName,
                   pendingRename, utilVars>>

InitClips ==
    /\ \E d \in Durations : Loaded(d)
    /\ ClipsIdle
    /\ UtilIdle

NextClips ==
    \/ handleCut
    \/ handleJoin
    \/ \E id \in ShownIds : deleteClip(id)
    \/ \E id \in ShownIds, name \in Names : renameClip(id, name)
    \/ \E id \in ShownIds : handleSmartRename(id)
    \/ \E described \in BOOLEAN : smartRenamePrompt(described)
    \/ \E outcome \in Outcomes, text \in Texts :
          smartRenameDone(generateCreativeName(outcome, text))
    \/ advanceDate

SpecClips == InitClips /\ [][NextClips]_vars

---------------------------------------------------------------------------
(* Smart rename under a naming request that settles: once the description  *)
(* is given, the awaited generateCreativeName resolves (with a name, or     *)
(* with the fallback after no key, an empty text or a rejection) and the    *)
(* continuation of ClipManager.tsx:22-25 runs.                              *)

NextRename ==
    \/ handleCut
    \/ \E id \in ShownIds : deleteClip(id)
    \/ \E id \in ShownIds : handleSmartRename(id)
    \/ \E described \in BOOLEAN : smartRenamePrompt(described)
    \/ \E outcome \in Outcomes, text \in Texts :
          smartRenameDone(generateCreativeName(outcome, text))
    \/ advanceDate

SpecRename ==
    /\ InitClips
    /\ [][NextRename]_vars
    /\ WF_vars(\E outcome \in Outcomes, text \in Texts :
                  smartRenameDone(generateCreativeName(outcome, text)))

---------------------------------------------------------------------------
(* File replacement around an edited session: loads that succeed or fail,  *)
(* Change File, seeks and drags, cuts and deletes.                         *)

NextLoad ==
    \/ handleFileUpload
    \/ \E d \in Durations : readerOnload(d)
    \/ readerOnloadError
    \/ changeFile
    \/ \E x \in RawXs : handlePointerDown(x)
    \/ \E x \in RawXs : handlePointerMove(x)
    \/ handlePointerUp
    \/ handleCut
    \/ \E id \in ShownIds : deleteClip(id)

SpecLoad == Init /\ [][NextLoad]_vars

---------------------------------------------------------------------------
(* The audio utilities, src/unnamed/part_000.                              *)
(*                                                                         *)
(* An AudioBuffer is [sampleRate, channels]: one sequence of samples per   *)
(* channel, all of the same length.  A sample is an integer number of      *)
(* quarters (SampleDen), so -4 is -1.0 and 6 is 1.5.  The start and end    *)
(* arguments of sliceAudioBuffer are integer numbers of 1/20000 s          *)
(* (TimeDen), which puts several argument values inside one frame.         *)

SampleDen == 4

TimeDen == 20000

numberOfChannels(b) == Len(b.channels)

\* AudioBuffer.length, in frames
length(b) == Len(b.channels[1])

\* context.createBuffer: silence
createBuffer(nChannels, nFrames, rate) ==
    [sampleRate |-> rate,
     channels |-> [i \in 1..nChannels |-> [j \in 1..nFrames |-> 0]]]

\* SampleOrZero that repeats the last frame beyond the end
SampleOrLast(channelData, k) ==
    IF 0 <= k /\ k < Len(channelData) THEN channelData[k + 1]
    ELSE IF k >= Len(channelData) THEN channelData[Len(channelData)] ELSE 0

\* line 29: channelData[k] || 0, k counted from 0; an index outside the
\* array reads undefined
SampleOrZero(channelData, k) ==
    IF 0 <= k /\ k < Len(channelData) THEN channelData[k + 1] ELSE 0

\* sliceAudioBuffer that mixes down to one channel and counts the end frame in
sliceAudioBuffer_Mono(buffer, start, end) ==
    LET sampleRate  == buffer.sampleRate
        startSample == (start * sampleRate) \div TimeDen
        endSample   == (end * sampleRate) \div TimeDen
        frameCount  == endSample - startSample + 2
    IN  IF frameCount <= 0
        THEN createBuffer(1, 1, sampleRate)
        ELSE [sampleRate |-> sampleRate,
              channels |->
                 [i \in 1..1 |->
                    [j \in 1..frameCount |->
                        SampleOrZero(buffer.channels[i], startSample + j - 1)]]]

\* sliceAudioBuffer whose fallback is the empty buffer
sliceAudioBuffer_EmptyFallback(buffer, start, end) ==
    LET sampleRate  == buffer.sampleRate
        startSample == (start * sampleRate) \div TimeDen
        endSample   == (end * sampleRate) \div TimeDen
        frameCount  == endSample - startSample
    IN  IF frameCount <= 0
        THEN createBuffer(numberOfChannels(buffer), 0, sampleRate)
        ELSE [sampleRate |-> sampleRate,
              channels |->
                 [i \in 1..numberOfChannels(buffer) |->
                    [j \in 1..frameCount |->
                        SampleOrZero(buffer.channels[i], startSample + j - 1)]]]

\* lines 11-34
sliceAudioBuffer(buffer, start, end) ==
    LET sampleRate  == buffer.sampleRate
        startSample == (start * sampleRate) \div TimeDen
        endSample   == (end * sampleRate) \div TimeDen
        frameCount  == endSample - startSample
    IN  IF frameCount <= 0
        THEN createBuffer(numberOfChannels(buffer), 1, sampleRate)
        ELSE [sampleRate |-> sampleRate,
              channels |->
                 [i \in 1..numberOfChannels(buffer) |->
                    [j \in 1..frameCount |->
                        SampleOrZero(buffer.channels[i], startSample + j - 1)]]]

\* line 44
RECURSIVE MaxChannels(_)
MaxChannels(buffers) ==
    IF buffers = <<>> THEN 0
    ELSE Max(numberOfChannels(Head(buffers)), MaxChannels(Tail(buffers)))

\* line 45
RECURSIVE TotalLength(_)
TotalLength(buffers) ==
    IF buffers = <<>> THEN 0
    ELSE length(Head(buffers)) + TotalLength(Tail(buffers))

\* line 57: channelData.set(sourceChannel, offset)
SetAt(channelData, sourceChannel, offset) ==
    [j \in 1..Len(channelData) |->
        IF offset < j /\ j <= offset + Len(sourceChannel)
        THEN sourceChannel[j - offset] ELSE channelData[j]]

\* FillChannel that always copies channel 0 of the input
RECURSIVE FillChannel_Mono(_, _, _, _, _)
FillChannel_Mono(channelData, buffers, i, k, offset) ==
    IF k > Len(buffers) THEN channelData
    ELSE FillChannel_Mono(SetAt(channelData, buffers[k].channels[1], offset),
                          buffers, i, k + 1, offset + length(buffers[k]))

\* lines 52-59 for output channel i (counted from 0): the forEach from
\* buffer k on, with the offset reached so far
RECURSIVE FillChannel(_, _, _, _, _)
FillChannel(channelData, buffers, i, k, offset) ==
    IF k > Len(buffers) THEN channelData
    ELSE LET buffer == buffers[k]
             sourceChannel == IF numberOfChannels(buffer) > i
                              THEN buffer.channels[i + 1] ELSE buffer.channels[1]
         IN  FillChannel(SetAt(channelData, sourceChannel, offset),
                         buffers, i, k + 1, offset + length(buffer))

\* joinAudioBuffers that takes the sample rate of the last input
joinAudioBuffers_LastRate(buffers) ==
    IF Len(buffers) = 0 THEN createBuffer(1, 1, 44100)
    ELSE LET nChannels == MaxChannels(buffers)
             totalLength == TotalLength(buffers)
             newBuffer == createBuffer(nChannels, totalLength,
                                       buffers[Len(buffers)].sampleRate)
         IN  [newBuffer EXCEPT !.channels =
                 [i \in 1..nChannels |->
                     FillChannel(newBuffer.channels[i], buffers, i - 1, 1, 0)]]

\* lines 39-63
joinAudioBuffers(buffers) ==
    IF Len(buffers) = 0 THEN createBuffer(1, 1, 44100)
    ELSE LET nChannels == MaxChannels(buffers)
             totalLength == TotalLength(buffers)
             newBuffer == createBuffer(nChannels, totalLength, buffers[1].sampleRate)
         IN  [newBuffer EXCEPT !.channels =
                 [i \in 1..nChannels |->
                     FillChannel(newBuffer.channels[i], buffers, i - 1, 1, 0)]]

\* x | 0 for a quotient a / b with b > 0: truncation toward zero
Truncate(a, b) == IF a >= 0 THEN a \div b ELSE -((-a) \div b)

\* lines 104-105: clamp, then (0.5 + sample < 0 ? sample * 32768 :
\* sample * 32767) | 0, where the condition parses as (0.5 + sample) < 0
convertSample(s) ==
    LET sample == Max(-SampleDen, Min(SampleDen, s))
    IN  IF SampleDen + 2 * sample < 0
        THEN Truncate(sample * 32768, SampleDen)
        ELSE Truncate(sample * 32767, SampleDen)

\* the value of pos when the header is written: three setUint32 (lines
\* 81-83), the fmt chunk (85-92), the data chunk head (94-95)
headerEnd == (4 + 4 + 4) + (4 + 4 + 2 + 2 + 4 + 4 + 2 + 2) + (4 + 4)

\* lines 101-110: pos goes on from headerEnd and doubles as frame index;
\* slot k (from 0) of the sample area is written for frame headerEnd + k \div C
wavData(buffer) ==
    LET numOfChan == numberOfChannels(buffer)
    IN  [k \in 1..(length(buffer) * numOfChan) |->
            LET pos == headerEnd + (k - 1) \div numOfChan
                i   == (k - 1) % numOfChan
            IN  IF pos < length(buffer)
                THEN convertSample(buffer.channels[i + 1][pos + 1])
                ELSE 0]

\* bufferToWav whose data chunk length counts the chunk head and whose byte
\* rate forgets the channels
bufferToWav_ChunkHead(buffer) ==
    LET numOfChan == numberOfChannels(buffer)
        len == length(buffer) * numOfChan * 2 + 44
    IN  [byteLength |-> len,
         riffSize |-> len - 8,
         fmtSize |-> 16,
         format |-> 1,
         numChannels |-> numOfChan,
         sampleRate |-> buffer.sampleRate,
         byteRate |-> buffer.sampleRate * 2,
         blockAlign |-> numOfChan * 2,
         bitsPerSample |-> 16,
         dataSize |-> len - 40,
         data |-> wavData(buffer)]

\* lines 69-112; the ArrayBuffer as its header fields and its 16-bit slots
bufferToWav(buffer) ==
    LET numOfChan == numberOfChannels(buffer)
        len == length(buffer) * numOfChan * 2 + 44
    IN  [byteLength |-> len,
         riffSize |-> len - 8,
         fmtSize |-> 16,
         format |-> 1,
         numChannels |-> numOfChan,
         sampleRate |-> buffer.sampleRate,
         byteRate |-> buffer.sampleRate * 2 * numOfChan,
         blockAlign |-> numOfChan * 2,
         bitsPerSample |-> 16,
         dataSize |-> len - 40 - 4,
         data |-> wavData(buffer)]

---------------------------------------------------------------------------
(* The peak reduction of the waveform drawing, WaveformEditor.tsx:73-94 *)

\* lines 85-89 from j on: a datum read beyond the array is undefined and
\* fails both comparisons
RECURSIVE ScanWindow(_, _, _, _, _, _)
ScanWindow(data, i, step, j, min, max) ==
    IF j >= step THEN [min |-> min, max |-> max]
    ELSE LET k == i * step + j
         IN  IF k < Len(data)
             THEN LET datum == data[k + 1]
                  IN  ScanWindow(data, i, step, j + 1,
                                 IF datum < min THEN datum ELSE min,
                                 IF datum > max THEN datum ELSE max)
             ELSE ScanWindow(data, i, step, j + 1, min, max)

\* line 75: Math.ceil(data.length / containerWidth)
peakStep(data, width) == (Len(data) + width - 1) \div width

\* lines 74-89: the (min, max) pair of every column, from min = 1.0 and
\* max = -1.0 (lines 82-83), on channel 0
peakColumns(buffer, width) ==
    LET data == buffer.channels[1]
    IN  [c \in 1..width |->
            ScanWindow(data, c - 1, peakStep(data, width), 0, SampleDen, -SampleDen)]

---------------------------------------------------------------------------
(* The utilities applied to buffers and arguments of bounded size *)

\* a decoded buffer: rate, channel count, frame count, and a sample pattern
\* that differs from frame to frame and channel to channel, with values
\* from -2.0 to 2.0
MakeBuffer(rate, nChannels, nFrames, p) ==
    [sampleRate |-> rate,
     channels |-> [c \in 1..nChannels |->
                     [f \in 1..nFrames |-> ((f * 3 + c * 5 + p) % 17) - 8]]]

Rates == {8000, 11025}

\* three frames at 8000 Hz: 7.5 ticks of 1/20000 s
ShortBuffers == {MakeBuffer(8000, c, 3, p) : c \in 1..2, p \in 0..1}

\* a little over 0.1 s: 1000 frames at 8000 Hz, 1103 frames at 11025 Hz
LongBuffers == {MakeBuffer(8000, c, 1000, 0) : c \in 1..2}
               \cup {MakeBuffer(11025, c, 1103, 0) : c \in 1..2}

SliceArgs ==
    {[op |-> "slice", buffer |-> b, start |-> st, end |-> en] :
        b \in ShortBuffers, st \in -1..8, en \in 0..10}
    \cup
    {[op |-> "slice", buffer |-> b, start |-> st, end |-> en] :
        b \in LongBuffers, st \in {0, 1, 2, 3}, en \in {1999, 2000, 2001, 2002, 2003, 2500}}

JoinParts == {MakeBuffer(r, c, n, 0) : r \in Rates, c \in 1..2, n \in 1..2}

MaxJoin == 3

JoinArgs ==
    {[op |-> "join", buffers |-> bs] :
        bs \in UNION {[1..n -> JoinParts] : n \in 0..MaxJoin}}

WavLengths == {1, 2, 44, 45, 46}

WavArgs ==
    {[op |-> "wav", buffer |-> MakeBuffer(r, c, n, p)] :
        r \in Rates, c \in 1..2, n \in WavLengths, p \in 0..1}

Samples == -8..8

ConvertArgs == {[op |-> "convert", sample |-> x] : x \in Samples}

PeakLengths == {1, 2, 3, 5, 7}

MaxWidth == 4

PeakArgs ==
    {[op |-> "peaks", buffer |-> MakeBuffer(8000, c, n, p), width |-> w] :
        c \in 1..2, n \in PeakLengths, p \in 0..3, w \in 1..MaxWidth}

applySlice ==
    /\ args.op = "slice" /\ result.op = "none"
    /\ result' = [op |-> "slice",
                  out |-> sliceAudioBuffer(args.buffer, args.start, args.end)]
    /\ UNCHANGED <<playerVars, clipVars, args>>

applyJoin ==
    /\ args.op = "join" /\ result.op = "none"
    /\ result' = [op |-> "join", out |-> joinAudioBuffers(args.buffers)]
    /\ UNCHANGED <<playerVars, clipVars, args>>

applyWav ==
    /\ args.op = "wav" /\ result.op = "none"
    /\ result' = [op |-> "wav", out |-> bufferToWav(args.buffer)]
    /\ UNCHANGED <<playerVars, clipVars, args>>

applyConvert ==
    /\ args.op = "convert" /\ result.op = "none"
    /\ result' = [op |-> "convert", out |-> convertSample(args.sample)]
    /\ UNCHANGED <<playerVars, clipVars, args>>

applyPeaks ==
    /\ args.op = "peaks" /\ result.op = "none"
    /\ result' = [op |-> "peaks", out |-> peakColumns(args.buffer, args.width)]
    /\ UNCHANGED <<playerVars, clipVars, args>>

InitAudio ==
    /\ PlayerIdle
    /\ ClipsIdle
    /\ args \in SliceArgs \cup JoinArgs \cup WavArgs \cup ConvertArgs \cup PeakArgs
    /\ result = NoResult

NextAudio == applySlice \/ applyJoin \/ applyWav \/ applyConvert \/ applyPeaks

SpecAudio == InitAudio /\ [][NextAudio]_vars

---------------------------------------------------------------------------
(* Properties *)

\* the nodes that sound now
EmittingCount ==
    (IF Emitting(sourceNodeRef) THEN 1 ELSE 0)
    + Cardinality({i \in 1..Len(detached) : Emitting(detached[i])})

Clamp(t, lo, hi) == IF t < lo THEN lo ELSE IF t > hi THEN hi ELSE t

\* C1: at most one audio source is emitting and at most one clock-sampling
\* loop is scheduled, whatever the interleaving of PlayPause, seeks, clock
\* ticks and 'ended' callbacks (late ones of stopped sources included).
C1_OneSession == EmittingCount <= 1 /\ Len(loops) <= 1

\* a step that cancels the clock loop: pause, seek, Change File, a new load
CancelStep ==
    \/ isPlaying /\ togglePlayPause
    \/ \E x \in RawXs : handleSeek(getPointerTime(x))
    \/ changeFile
    \/ \E d \in Durations : readerOnload(d)

\* C2: once a stop (pause), a seek or a file replacement has cancelled the
\* clock loop, no update is left scheduled that could change the cursor or
\* the play mode; a pause with no loop running changes neither.
C2_NoTickAfterCancel ==
    [][ /\ CancelStep => loops' = <<>>
        /\ (isPlaying /\ togglePlayPause /\ loops = <<>>)
              => UNCHANGED <<currentTime, selection, mainAudio>> ]_vars

\* playback stops by itself: an update sees the end, or the node the ref
\* holds has played out and reports 'ended'
AutonomousStop ==
    /\ isPlaying /\ ~isPlaying'
    /\ \/ \E k \in 1..Len(loops) : update(k)
       \/ onendedCurrent /\ now >= sourceNodeRef.endAt

\* C3: when playback stops by itself the mode is Stopped and the cursor is
\* the start of the selection in force at that moment.
C3_StopSnapsToSelectionStart ==
    [][ AutonomousStop => ~isPlaying' /\ currentTime' = selection'.start ]_vars

\* a press at pointer offset x that is a plain seek
SeekStep(x) ==
    /\ handlePointerDown(x)
    /\ ~WithinTolerance(getPointerTime(x), selection.start)
    /\ ~WithinTolerance(getPointerTime(x), selection.end)

\* C4: Seek(t), t = x / width * duration, ends Stopped with no source
\* emitting, no clock loop scheduled and the cursor at clamp(t, 0, duration);
\* the selection is unchanged.
C4_SeekStopsAndClamps ==
    [][ \A x \in RawXs : SeekStep(x) =>
          /\ ~isPlaying'
          /\ EmittingCount' = 0
          /\ loops' = <<>>
          /\ containerWidth * currentTime'
                = Clamp(x * mainAudio, 0, containerWidth * mainAudio)
          /\ selection' = selection ]_vars

\* C5: PlayPause while Stopped with a buffer loaded goes to Playing; the
\* emission starts at the cursor if selection.start <= cursor < selection.end
\* and at selection.start otherwise, and covers exactly [start, selection.end).
C5_PlayCoversSelectionTail ==
    [][ (~isPlaying /\ togglePlayPause) =>
          LET s == IF selection.start <= currentTime /\ currentTime < selection.end
                   THEN currentTime ELSE selection.start
          IN  /\ isPlaying'
              /\ Emitting(sourceNodeRef)'
              /\ sourceNodeRef'.offset = s
              /\ sourceNodeRef'.offset + (sourceNodeRef'.endAt - now') = selection.end
      ]_vars

\* where emission would start if PlayPause were pressed in this state
\* (togglePlayPause lines 135-138, then playAudio lines 82-85)
ResumePoint ==
    startPosOf(IF currentTime >= selection.end \/ currentTime < selection.start
               THEN selection.start ELSE currentTime, selection)

\* C6: PlayPause while Playing stops emission and goes to Stopped with the
\* cursor unchanged, and a PlayPause that follows directly would resume
\* emission from that cursor value.
C6_PauseKeepsCursorForResume ==
    [][ (isPlaying /\ togglePlayPause) =>
          /\ ~isPlaying'
          /\ EmittingCount' = 0
          /\ currentTime' = currentTime
          /\ ResumePoint' = currentTime ]_vars

\* C7: with a buffer loaded, whatever its duration, the selection satisfies
\* 0 <= start and start + 0.1 s <= end <= duration.
C7_SelectionInvariant ==
    mainAudio # NoAudio =>
        /\ 0 <= selection.start
        /\ selection.start + minDuration <= selection.end
        /\ selection.end <= mainAudio

\* C8: dragging the start handle to pointer time t sets start to
\* clamp(t, 0, end - 0.1 s), so to exactly end - 0.1 s for t > end - 0.1 s;
\* dragging the end handle sets end to clamp(t, start + 0.1 s, duration);
\* the other boundary keeps its value.
C8_DragClampsOneBoundary ==
    [][ \A x \in AllXs : handlePointerMove(x) =>
          LET t == getPointerTime(x)
          IN  IF isDragging = "start"
              THEN /\ selection'.start = Clamp(t, 0, selection.end - minDuration)
                   /\ t > selection.end - minDuration
                         => selection'.start = selection.end - minDuration
                   /\ selection'.end = selection.end
              ELSE /\ selection'.end = Clamp(t, selection.start + minDuration, mainAudio)
                   /\ selection'.start = selection.start ]_vars

\* the start handle was dragged past end - 0.1 s and stands exactly there
C8_StartHandleCapped ==
    /\ mainAudio # NoAudio
    /\ isDragging = "start"
    /\ selection.start > 0
    /\ selection.start = selection.end - minDuration

\* C9: a selection change (a drag step) leaves the play mode, the cursor,
\* the audio sources and the clock loop as they were.
C9_SelectionChangeTouchesNothingElse ==
    [][ (\E x \in RawXs : handlePointerMove(x)) =>
          UNCHANGED <<mainAudio, isPlaying, currentTime, now, startTimeRef,
                      sourceNodeRef, detached, animationFrameRef, loops>> ]_vars

\* playing, mid-drag, the selection no longer the one playback captured, and
\* the cursor outside the new selection
C9_PlayingCursorOutsideNewSelection ==
    /\ isPlaying
    /\ isDragging # "none"
    /\ Emitting(sourceNodeRef)
    /\ animationFrameRef # 0
    /\ loops[animationFrameRef].sel # selection
    /\ (currentTime < selection.start \/ currentTime >= selection.end)

\* C10: all clips of the registry have pairwise distinct identifiers, also
\* when two cuts happen at the same clock value.
C10_DistinctIds ==
    \A i, j \in 1..Len(clips) : i # j => clips[i].id # clips[j].id

\* the identifiers of a clip list, in order
Ids(cs) == [i \in 1..Len(cs) |-> cs[i].id]

\* a rename takes effect: from the name field, or from a finished smart rename
RenameStep ==
    \/ \E id \in ShownIds, name \in Names : renameClip(id, name)
    \/ \E outcome \in Outcomes, text \in Texts :
          smartRenameDone(generateCreativeName(outcome, text))

\* C11: the clips that remain keep their relative order: a cut adds its clip
\* at the end, a delete removes exactly the clips with the given identifier,
\* a rename and a join leave the sequence of identifiers as it was.
C11_OrderKept ==
    [][ /\ handleCut =>
              /\ Len(clips') = Len(clips) + 1
              /\ SubSeq(clips', 1, Len(clips)) = clips
        /\ \A id \in ShownIds :
              deleteClip(id) => clips' = SelectSeq(clips, LAMBDA c : c.id # id)
        /\ (RenameStep \/ handleJoin) => Ids(clips') = Ids(clips) ]_vars

\* C12: a rename or delete whose identifier is not in the registry when it
\* takes effect leaves the registry as it is; so does the rename a smart
\* rename delivers after its clip was deleted.  (The list's own buttons and
\* name fields only ever pass identifiers of listed clips.)
C12_AbsentIdIsNoOp ==
    [][ ( /\ pendingRename.id \notin ShownIds
          /\ \E outcome \in Outcomes, text \in Texts :
                smartRenameDone(generateCreativeName(outcome, text)) )
        => clips' = clips ]_vars

\* C13: a failed decode aborts the load: buffer, selection, cursor, play
\* mode and clip registry stay as they were from the upload on, the failure
\* is reported once and the processing flag is false again.
C13_FailedLoadLeavesState ==
    [][ /\ handleFileUpload =>
              UNCHANGED <<mainAudio, selection, currentTime, isPlaying, clips, alerts>>
        /\ readerOnloadError =>
              /\ UNCHANGED <<mainAudio, selection, currentTime, isPlaying, clips>>
              /\ alerts' = alerts + 1
              /\ ~isProcessing' ]_vars

\* a failure was reported after Change File on a session with a moved
\* cursor, a dragged selection and a clip in the registry
C13_FailureAfterEditedSession ==
    /\ alerts = 1
    /\ pendingLoads = 0
    /\ ~isProcessing
    /\ mainAudio = NoAudio
    /\ currentTime # 0
    /\ selection.end # InitialSelectionEnd
    /\ clips # <<>>

\* floor(t * rate), t in ticks of 1 / TimeDen s
FloorFrame(t, rate) == (t * rate) \div TimeDen

\* round(t * rate), halves upward
RoundFrames(t, rate) == (2 * t * rate + TimeDen) \div (2 * TimeDen)

\* C14: for a slice with positive frame count, output frame j of channel c
\* is source frame floor(start * sampleRate) + j of channel c when that
\* index is inside the source and 0 when it is beyond the last frame; the
\* source buffer is not modified.
C14_SliceCopiesFrames ==
    [][ (applySlice /\ FloorFrame(args.end, args.buffer.sampleRate)
                        > FloorFrame(args.start, args.buffer.sampleRate)) =>
          LET src == args.buffer
              out == result'.out
              first == FloorFrame(args.start, src.sampleRate)
          IN  /\ args' = args
              /\ \A c \in 1..numberOfChannels(src) :
                   \A j \in 0..(length(out) - 1) :
                      /\ (0 <= first + j /\ first + j < length(src))
                            => out.channels[c][j + 1] = src.channels[c][first + j + 1]
                      /\ first + j >= length(src) => out.channels[c][j + 1] = 0
      ]_vars

\* a slice that starts inside the source and ends beyond its last frame
C14_SliceAcrossTheEnd ==
    /\ result.op = "slice"
    /\ numberOfChannels(args.buffer) = 2
    /\ 0 <= FloorFrame(args.start, args.buffer.sampleRate)
    /\ FloorFrame(args.start, args.buffer.sampleRate) < length(args.buffer)
    /\ FloorFrame(args.end, args.buffer.sampleRate) > length(args.buffer)
    /\ result.out.channels[2][1] # 0

\* 0 <= start, end <= duration and end - start >= 0.1 s
ValidSliceArgs ==
    /\ 0 <= args.start /\ 0 <= args.end
    /\ args.start * args.buffer.sampleRate <= length(args.buffer) * TimeDen
    /\ args.end * args.buffer.sampleRate <= length(args.buffer) * TimeDen
    /\ 10 * (args.end - args.start) >= TimeDen

\* C15: for 0 <= start, end <= duration with end - start >= 0.1 s the slice
\* has a frame count within 1 of round((end - start) * sampleRate) and the
\* sample rate and channel count of the source.
C15_SliceFrameCount ==
    (result.op = "slice" /\ ValidSliceArgs) =>
        /\ Abs(length(result.out)
               - RoundFrames(args.end - args.start, args.buffer.sampleRate)) <= 1
        /\ result.out.sampleRate = args.buffer.sampleRate
        /\ numberOfChannels(result.out) = numberOfChannels(args.buffer)

\* a valid stereo slice whose frame count is not the rounded one
C15_FrameCountOffByOne ==
    /\ result.op = "slice"
    /\ ValidSliceArgs
    /\ numberOfChannels(args.buffer) = 2
    /\ length(result.out)
         # RoundFrames(args.end - args.start, args.buffer.sampleRate)

\* floor(end * sampleRate) - floor(start * sampleRate) <= 0
EmptySliceArgs ==
    FloorFrame(args.end, args.buffer.sampleRate)
        <= FloorFrame(args.start, args.buffer.sampleRate)

\* C16: when floor(end * sampleRate) - floor(start * sampleRate) <= 0 the
\* slice is a buffer of exactly 1 frame, all samples 0, with the source's
\* sample rate and channel count.
C16_EmptySliceFallback ==
    (result.op = "slice" /\ EmptySliceArgs) =>
        /\ length(result.out) = 1
        /\ \A c \in 1..numberOfChannels(result.out) : result.out.channels[c] = <<0>>
        /\ result.out.sampleRate = args.buffer.sampleRate
        /\ numberOfChannels(result.out) = numberOfChannels(args.buffer)

\* the fallback for a stereo source with end before start
C16_FallbackForReversedRange ==
    /\ result.op = "slice"
    /\ args.end < args.start
    /\ FloorFrame(args.end, args.buffer.sampleRate)
         < FloorFrame(args.start, args.buffer.sampleRate)
    /\ numberOfChannels(args.buffer) = 2

\* the frames of the first n buffers of bs together
RECURSIVE FramesBefore(_, _)
FramesBefore(bs, n) ==
    IF n = 0 THEN 0 ELSE FramesBefore(bs, n - 1) + Len(bs[n].channels[1])

\* C17: for a non-empty list, the joined buffer has the maximum channel
\* count of the inputs, the sum of their frame counts, and the sample rate
\* of the first input, also when the inputs' rates differ.
C17_JoinShape ==
    (result.op = "join" /\ args.buffers # <<>>) =>
        LET bs == args.buffers
            out == result.out
        IN  /\ \E k \in 1..Len(bs) : numberOfChannels(out) = numberOfChannels(bs[k])
            /\ \A k \in 1..Len(bs) : numberOfChannels(out) >= numberOfChannels(bs[k])
            /\ \A c \in 1..numberOfChannels(out) :
                  Len(out.channels[c]) = FramesBefore(bs, Len(bs))
            /\ out.sampleRate = bs[1].sampleRate

\* a join of three buffers: mono first, stereo later, of different rates
\* and lengths
C17_MixedJoin ==
    /\ result.op = "join"
    /\ Len(args.buffers) = 3
    /\ numberOfChannels(args.buffers[1]) = 1
    /\ numberOfChannels(args.buffers[3]) = 2
    /\ args.buffers[1].sampleRate # args.buffers[2].sampleRate
    /\ length(args.buffers[1]) # length(args.buffers[2])

\* C18: in the joined buffer, for every output channel i and input k, the
\* frames at [frames of the inputs before k, that + frameCount(k)) are input
\* k's channel i if it has one and its channel 0 otherwise; the join of a
\* single buffer has that buffer's samples.
C18_JoinPlacesInputs ==
    (result.op = "join" /\ args.buffers # <<>>) =>
        LET bs == args.buffers
            out == result.out
        IN  /\ \A i \in 1..numberOfChannels(out) : \A k \in 1..Len(bs) :
                  LET from == IF numberOfChannels(bs[k]) >= i
                              THEN bs[k].channels[i] ELSE bs[k].channels[1]
                  IN  SubSeq(out.channels[i], FramesBefore(bs, k - 1) + 1,
                             FramesBefore(bs, k)) = from
            /\ Len(bs) = 1 => out.channels = bs[1].channels

\* a stereo join with a mono input between two stereo inputs of two frames
C18_MonoBetweenStereo ==
    /\ result.op = "join"
    /\ Len(args.buffers) = 3
    /\ numberOfChannels(args.buffers[1]) = 2
    /\ numberOfChannels(args.buffers[2]) = 1
    /\ numberOfChannels(args.buffers[3]) = 2
    /\ \A k \in 1..3 : length(args.buffers[k]) = 2
    /\ result.out.channels[1] # result.out.channels[2]

\* C19: for C channels and N frames (N <= 44 and the 1-frame fallback
\* included) the encoder writes every frame: the 16-bit value at byte offset
\* 44 + 2 * (f * C + c) is the converted sample f of channel c.
C19_EveryFrameEncoded ==
    result.op = "wav" =>
        \A f \in 0..(length(args.buffer) - 1) :
            \A c \in 0..(numberOfChannels(args.buffer) - 1) :
                result.out.data[f * numberOfChannels(args.buffer) + c + 1]
                    = convertSample(args.buffer.channels[c + 1][f + 1])

\* C20: a sample s is clamped to [-1, 1], multiplied by 32767 when s >= 0
\* and by 32768 when s < 0 (every negative s), and truncated toward zero.
C20_AsymmetricScaling ==
    result.op = "convert" =>
        LET s == Clamp(args.sample, -SampleDen, SampleDen)
        IN  result.out = IF s >= 0 THEN Truncate(s * 32767, SampleDen)
                         ELSE Truncate(s * 32768, SampleDen)

\* C21: for C channels, N frames and sample rate R the encoder output is
\* 44 + 2 * N * C bytes long and its header holds RIFF size = length - 8,
\* format 1 (PCM), C channels, rate R, byte rate 2 * R * C, block alignment
\* 2 * C, 16 bits, and data chunk size = length - 44.
C21_WavHeader ==
    result.op = "wav" =>
        LET C == numberOfChannels(args.buffer)
            N == length(args.buffer)
            R == args.buffer.sampleRate
            out == result.out
        IN  /\ out.byteLength = 44 + 2 * N * C
            /\ Len(out.data) * 2 + 44 = out.byteLength
            /\ out.riffSize = out.byteLength - 8
            /\ out.format = 1
            /\ out.numChannels = C
            /\ out.sampleRate = R
            /\ out.byteRate = 2 * R * C
            /\ out.blockAlign = 2 * C
            /\ out.bitsPerSample = 16
            /\ out.dataSize = out.byteLength - 44

\* a stereo buffer of 45 frames at 11025 Hz was encoded
C21_StereoEncoded ==
    /\ result.op = "wav"
    /\ numberOfChannels(args.buffer) = 2
    /\ length(args.buffer) = 45
    /\ args.buffer.sampleRate = 11025
    /\ result.out.byteLength = 224

\* the frames of data that column i (from 0) covers
PeakWindow(data, i, step) ==
    {k \in (i * step)..((i + 1) * step - 1) : k < Len(data)}

\* C22: with step = ceil(frameCount / width), column i holds the minimum and
\* maximum of channel 0 over the existing frames of [i*step, (i+1)*step);
\* a column whose window has no frame holds the prior sample as both, so
\* min <= max in every column.
C22_PeakColumns ==
    result.op = "peaks" =>
        LET data == args.buffer.channels[1]
            step == (Len(data) + args.width - 1) \div args.width
        IN  \A i \in 0..(args.width - 1) :
                LET win == PeakWindow(data, i, step)
                    col == result.out[i + 1]
                IN  /\ win # {} =>
                          /\ \E k \in win : col.min = data[k + 1]
                          /\ \A k \in win : col.min <= data[k + 1]
                          /\ \E k \in win : col.max = data[k + 1]
                          /\ \A k \in win : col.max >= data[k + 1]
                    /\ win = {} =>
                          /\ col.min = data[Len(data)]
                          /\ col.max = data[Len(data)]
                    /\ col.min <= col.max

\* C23: a smart rename whose description was given eventually performs a
\* rename and clears the generating flag, whatever becomes of the naming
\* request; without a key, on an empty text and on a failure the name is
\* audio_clip_<unixTimeMs>.
C23_SmartRenameCompletes ==
    /\ (pendingRename.stage = "naming")
          ~> (pendingRename.stage = "idle" /\ isGeneratingName = NoName)
    /\ [][ (pendingRename.stage = "naming" /\ pendingRename'.stage # "naming") =>
              /\ isGeneratingName' = NoName
              /\ \E i \in 1..Len(clips') :
                    /\ clips'[i].id = pendingRename.id
                    /\ clips'[i].name \in Names \cup {"audio_clip_" \o ToString(dateNow)}
         ]_vars
    /\ [][ \A outcome \in Outcomes, text \in Texts :
              ( /\ outcome # "text" \/ text = ""
                /\ smartRenameDone(generateCreativeName(outcome, text)) ) =>
                  \A i \in 1..Len(clips') :
                      clips'[i].id = pendingRename.id
                          => clips'[i].name = "audio_clip_" \o ToString(dateNow)
         ]_vars

\* a smart rename ended with the fallback name of millisecond 1
C23_RenamedToFallback ==
    /\ isGeneratingName = NoName
    /\ pendingRename.stage = "idle"
    /\ \E i \in 1..Len(clips) : clips[i].name = "audio_clip_1"

\* C24: after a successful load the mode is Stopped, no source emits and
\* no clock loop is scheduled, the selection is [0, min(duration, 15 s)],
\* the cursor is selection.start, and the clip registry is as before.
C24_LoadResetsPlayer ==
    [][ \A d \in Durations : readerOnload(d) =>
          /\ ~isPlaying'
          /\ EmittingCount' = 0
          /\ loops' = <<>>
          /\ mainAudio' = d
          /\ selection' = [start |-> 0, end |-> Min(d, DefaultSelectionEnd)]
          /\ currentTime' = selection'.start
          /\ clips' = clips ]_vars

\* |t - h| < max(5 % of the duration, the time of 10 pixels), multiplied out
NearHandle(t, h) ==
    20 * containerWidth * Abs(t - h)
        < Max(containerWidth * mainAudio, 200 * mainAudio)

\* C25: a press at time t starts a start-handle drag when t is within the
\* tolerance of selection.start (also when the end handle matches too),
\* otherwise an end-handle drag when within the tolerance of selection.end,
\* otherwise it performs Seek(t); a press that starts a drag changes neither
\* cursor nor play mode, and no pointer step changes the selection while no
\* handle is dragged.
C25_PressPicksHandleOrSeeks ==
    [][ /\ \A x \in AllXs : handlePointerDown(x) =>
              LET t == getPointerTime(x)
              IN  IF NearHandle(t, selection.start)
                  THEN /\ isDragging' = "start"
                       /\ UNCHANGED <<currentTime, isPlaying, selection>>
                  ELSE IF NearHandle(t, selection.end)
                  THEN /\ isDragging' = "end"
                       /\ UNCHANGED <<currentTime, isPlaying, selection>>
                  ELSE /\ handleSeek(t)
                       /\ isDragging' = isDragging
        /\ ( /\ isDragging = "none"
             /\ \/ \E x \in AllXs : handlePointerDown(x)
                \/ \E x \in AllXs : handlePointerMove(x)
                \/ handlePointerUp ) => selection' = selection ]_vars

\* the start handle is held after a press that both handles matched, with
\* the cursor moved by an earlier seek
C25_StartWonOverEnd ==
    /\ isDragging = "start"
    /\ currentTime # 0
    /\ selection.start = 0
    /\ \E x \in AllXs :
          /\ OnGrid(x)
          /\ getPointerTime(x) # selection.start
          /\ NearHandle(getPointerTime(x), selection.start)
          /\ NearHandle(getPointerTime(x), selection.end)

\* a finished smart rename delivers its name
SmartRenameStep ==
    \E outcome \in Outcomes, text \in Texts :
        smartRenameDone(generateCreativeName(outcome, text))

\* C26: a rename never adds or removes clips: when a smart rename completes
\* after cuts or deletes made while the name was generated, the registry
\* holds the clips it held just before (same identifiers in the same order,
\* same buffers), only the renamed clip's name changed.
C26_RenameKeepsClips ==
    [][ SmartRenameStep =>
          /\ Len(clips') = Len(clips)
          /\ \A i \in 1..Len(clips) :
                /\ clips'[i].id = clips[i].id
                /\ clips'[i].buffer = clips[i].buffer
                /\ clips'[i].blob = clips[i].blob
                /\ clips[i].id # pendingRename.id => clips'[i].name = clips[i].name
      ]_vars

\* C27: the play-mode indicator agrees with the audio engine: isPlaying
\* holds only while the source of the current session has neither been
\* stopped nor reported its end, and whenever a source is emitting; an
\* 'ended' of an earlier, stopped source never clears it under a newer
\* emitting source.
C27_IndicatorMatchesEngine ==
    /\ isPlaying => (~sourceNodeRef.stopped /\ ~sourceNodeRef.ended)
    /\ EmittingCount >= 1 => isPlaying
    /\ EmittingCount <= 1

=============================================================================
